---- MODULE Spec2Model ----
(***************************************************************************)
(* Model of the two extraction pipelines of negative-treatment-extractor:  *)
(*   extract_negative_treatments.py   (variant "id":   fetch by HTTP GET)  *)
(*   legal_decision_negative_cases.py (variant "slug": local fixture file) *)
(* Each run is one process: module load, the __main__ guard, the input     *)
(* resolver, the model call and the result writer.  results.json is the    *)
(* only state that survives from one run to the next.                      *)
(*                                                                         *)
(* Texts are sequences of characters, so that "[]", "[]\n" and "[\n]" are  *)
(* different values and the comparison with the sentinel is exact.         *)
(* Optional values (an unset environment variable, an absent file) are     *)
(* None = <<>> or Some(x) = <<x>>.                                         *)
(* Failures of the local machine itself (disk full, unreadable fixture,    *)
(* closed stdin at the API-key prompt) are outside the model.              *)
(***************************************************************************)
EXTENDS Naturals, Sequences, FiniteSets

VARIABLES
    variant,        \* which script the current process runs: "id" or "slug"
    pc,             \* position of the process: idle, main, extract, analyze, write, exited
    argv,           \* sys.argv of the process
    envModel,       \* the CHAT_GPT_MODEL environment variable (None when unset)
    model,          \* the module global `model` of the id variant (None: no such global)
    httpStatus,     \* status of the response to the document GET (None before it)
    testData,       \* what get_file_by_slug found on disk for test_data (None before it)
    filePath,       \* value returned by get_file_by_slug (None before it)
    sentModel,      \* `model=` argument of the request to the model endpoint
    treatments,     \* text returned by the Model Client (None before it)
    results,        \* content of results.json (None when the file does not exist)
    resultsBefore,  \* content of results.json when the process started
    effects,        \* external effects of the process so far, in order
    outcome,        \* how the process ended ("running" until then)
    exitCode,       \* exit status of the process (None while it runs)
    prevFound       \* whether the previous process ended in Found

vars == <<variant, pc, argv, envModel, model, httpStatus, testData, filePath,
          sentModel, treatments, results, resultsBefore, effects, outcome,
          exitCode, prevFound>>

----------------------------------------------------------------------------
(* Values *)

MaxLen == 3

None == <<>>
Some(x) == <<x>>

Chars == {"[", "]", "\n"}
Texts == UNION {[1..n -> Chars] : n \in 0..MaxLen}

Sentinel == <<"[", "]">>

Variants == {"id", "slug"}

DefaultModel == "gpt-3.5-turbo"
EnvValues == {None, Some("gpt-4o")}

\* Command lines: the arguments after the script name (an id, or a slug).
ArgLists(v) ==
    IF v = "id" THEN {<<>>, <<"7">>, <<"7", "8">>}
    ELSE {<<>>, <<"foo">>, <<"fo">>, <<"foo", "fo">>}
ScriptName(v) ==
    IF v = "id" THEN "extract_negative_treatments.py"
    ELSE "legal_decision_negative_cases.py"

\* Statuses the HTTP client can hand back to fetch_opinion.
Statuses == {200, 304, 404, 503}

\* What can be on disk at the path test_data.
EntryNames == {"foo.html", "foobar.html"}
DirStates ==
    {[kind |-> "absent", entries |-> {}], [kind |-> "file", entries |-> {}]}
    \cup {[kind |-> "dir", entries |-> E] : E \in SUBSET EntryNames}

----------------------------------------------------------------------------
(* Pure parts of the code *)

\* os.getenv(name, default)
GetEnv(value, default) == IF value = None THEN default ELSE value[1]

\* __main__: len(sys.argv) != 2
ArgcWrongLoose(a) == Len(a) < 2
ArgcWrong(a) == Len(a) # 2

\* requests.Response.raise_for_status(): raises for 4xx and 5xx only
RaisesServerOnly(status) == 500 <= status /\ status < 600
RaisesForStatus(status) == 400 <= status /\ status < 600

\* os.path.exists(d) and os.path.isdir(d)
IsDir(d) == d.kind = "dir"

\* f"{slug}.html"
ExpectedFile(slug) == slug \o ".html"

\* os.path.join(test_data_dir, expected_file)
PathJoin(dir, name) == dir \o "/" \o name

\* os.path.exists(file_path) for a path directly under test_data
IsPrefix(s, t) == Len(s) <= Len(t) /\ SubSeq(t, 1, Len(s)) = s
EntryExistsByPrefix(d, name) ==
    \E e \in d.entries : IsPrefix(SubSeq(name, 1, Len(name) - 5), e)
EntryExists(d, name) == name \in d.entries

\* the `model=` argument of client.responses.create
RequestModel(v, m) == IF v = "id" THEN m[1] ELSE DefaultModel

\* treatments == "[]"
RECURSIVE Strip(_)
Strip(t) ==
    IF t = <<>> THEN t
    ELSE IF Head(t) = "\n" THEN Strip(Tail(t))
    ELSE IF t[Len(t)] = "\n" THEN Strip(SubSeq(t, 1, Len(t) - 1))
    ELSE t
IsSentinelStripped(t) == Strip(t) = Sentinel
IsFalsy(t) == t = <<>>
IsSentinel(t) == t = Sentinel

\* text-mode write: "\n" becomes os.linesep, which is "\n" on POSIX
LineSep == <<"\n">>
RECURSIVE Translate(_)
Translate(t) ==
    IF t = <<>> THEN <<>>
    ELSE (IF Head(t) = "\n" THEN LineSep ELSE <<Head(t)>>) \o Translate(Tail(t))

\* with open("results.json", "w") as f: f.write(data)
Content(file) == IF file = None THEN <<>> ELSE file[1]
OpenAppend(file, data) == Some(Content(file) \o Translate(data))
OpenWrite(file, data) == Some(Translate(data))

----------------------------------------------------------------------------
(* The process *)

Init ==
    /\ variant = "id"
    /\ pc = "idle"
    /\ argv = <<>>
    /\ envModel = None
    /\ model = None
    /\ httpStatus = None
    /\ testData = None
    /\ filePath = None
    /\ sentModel = None
    /\ treatments = None
    /\ results = None
    /\ resultsBefore = None
    /\ effects = <<>>
    /\ outcome = "running"
    /\ exitCode = None
    /\ prevFound = FALSE

\* sys.exit(arg) with a message or a non-zero code, and an uncaught exception,
\* all end the process with exit status 1.
Exit(how, code) ==
    /\ pc' = "exited"
    /\ outcome' = how
    /\ exitCode' = Some(code)

\* A new process starts: module load, then the __main__ guard.
Start(v, args, env) ==
    /\ pc \in {"idle", "exited"}
    /\ variant' = v
    /\ argv' = <<ScriptName(v)>> \o args
    /\ envModel' = env
    /\ model' = IF v = "id" THEN Some(GetEnv(env, DefaultModel)) ELSE None
    /\ httpStatus' = None
    /\ testData' = None
    /\ filePath' = None
    /\ sentModel' = None
    /\ treatments' = None
    /\ resultsBefore' = results
    /\ prevFound' = (outcome = "Found")
    /\ UNCHANGED results

InvokeUsage ==
    \E v \in Variants, env \in EnvValues : \E args \in ArgLists(v) :
        /\ Start(v, args, env)
        /\ ArgcWrong(argv')
        /\ effects' = <<"print_usage">>
        /\ Exit("Usage", 1)

InvokeMain ==
    \E v \in Variants, env \in EnvValues : \E args \in ArgLists(v) :
        /\ Start(v, args, env)
        /\ ~ArgcWrong(argv')
        /\ effects' = <<>>
        /\ pc' = "main"
        /\ outcome' = "running"
        /\ exitCode' = None

\* id variant: fetch_opinion, the GET gets no response at all
FetchOpinionNoResponse ==
    /\ pc = "main" /\ variant = "id"
    /\ effects' = effects \o <<"http_get">>
    /\ Exit("ConnectionError", 1)
    /\ UNCHANGED <<variant, argv, envModel, model, httpStatus, testData, filePath,
                   sentModel, treatments, results, resultsBefore, prevFound>>

\* id variant: fetch_opinion, the GET is answered
FetchOpinion ==
    /\ pc = "main" /\ variant = "id"
    /\ \E status \in Statuses :
        /\ httpStatus' = Some(status)
        /\ effects' = effects \o <<"http_get">>
        /\ IF RaisesForStatus(status)
           THEN Exit("HTTPError", 1)
           ELSE pc' = "analyze" /\ UNCHANGED <<outcome, exitCode>>
    /\ UNCHANGED <<variant, argv, envModel, model, testData, filePath,
                   sentModel, treatments, results, resultsBefore, prevFound>>

\* slug variant: get_file_by_slug
GetFileBySlug ==
    /\ pc = "main" /\ variant = "slug"
    /\ \E d \in DirStates :
        /\ testData' = Some(d)
        /\ IF ~IsDir(d)
           THEN /\ Exit("NotFound", 1)
                /\ UNCHANGED filePath
           ELSE IF ~EntryExists(d, ExpectedFile(argv[2]))
           THEN /\ Exit("NotFound", 1)
                /\ UNCHANGED filePath
           ELSE /\ filePath' = Some(PathJoin("test_data", ExpectedFile(argv[2])))
                /\ pc' = "extract"
                /\ UNCHANGED <<outcome, exitCode>>
    /\ UNCHANGED <<variant, argv, envModel, model, httpStatus, sentModel,
                   treatments, results, resultsBefore, effects, prevFound>>

\* slug variant: extract_text_from_html
ExtractTextFromHtml ==
    /\ pc = "extract"
    /\ effects' = effects \o <<"read_file">>
    /\ pc' = "analyze"
    /\ UNCHANGED <<variant, argv, envModel, model, httpStatus, testData, filePath,
                   sentModel, treatments, results, resultsBefore, outcome,
                   exitCode, prevFound>>

\* get_negative_treatments: OpenAI() raises
ClientConstructionFails ==
    /\ pc = "analyze"
    /\ Exit("ApiError", 1)
    /\ UNCHANGED <<variant, argv, envModel, model, httpStatus, testData, filePath,
                   sentModel, treatments, results, resultsBefore, effects,
                   prevFound>>

\* get_negative_treatments: client.responses.create raises
RequestFailsRetried ==
    /\ pc = "analyze"
    /\ sentModel' = Some(RequestModel(variant, model))
    /\ effects' = effects \o <<"model_request">>
    /\ UNCHANGED <<variant, pc, argv, envModel, model, httpStatus, testData,
                   filePath, treatments, results, resultsBefore, outcome,
                   exitCode, prevFound>>
RequestFails ==
    /\ pc = "analyze"
    /\ sentModel' = Some(RequestModel(variant, model))
    /\ effects' = effects \o <<"model_request">>
    /\ Exit("ApiError", 1)
    /\ UNCHANGED <<variant, argv, envModel, model, httpStatus, testData, filePath,
                   treatments, results, resultsBefore, prevFound>>

\* get_negative_treatments: the call returns response.output_text
RequestSucceeds ==
    /\ pc = "analyze"
    /\ \E t \in Texts : treatments' = Some(t)
    /\ sentModel' = Some(RequestModel(variant, model))
    /\ effects' = effects \o <<"model_request">>
    /\ pc' = "write"
    /\ UNCHANGED <<variant, argv, envModel, model, httpStatus, testData, filePath,
                   results, resultsBefore, outcome, exitCode, prevFound>>

\* main, after the model call: the sentinel branch.  In the id variant the
\* branch ends with f.write("") on the local f that is bound only in the other
\* branch, which raises UnboundLocalError before anything is written.
WriterEmpty ==
    /\ pc = "write"
    /\ IsSentinel(treatments[1])
    /\ effects' = effects \o <<"print_none">>
    /\ IF variant = "id" THEN Exit("UnboundLocalError", 1) ELSE Exit("Empty", 0)
    /\ UNCHANGED <<variant, argv, envModel, model, httpStatus, testData, filePath,
                   sentModel, treatments, results, resultsBefore, prevFound>>

\* main, after the model call: the other branch
WriterFound ==
    /\ pc = "write"
    /\ ~IsSentinel(treatments[1])
    /\ results' = OpenWrite(results, treatments[1])
    /\ effects' = effects \o <<"open_w", "print_found">>
    /\ Exit("Found", 0)
    /\ UNCHANGED <<variant, argv, envModel, model, httpStatus, testData, filePath,
                   sentModel, treatments, resultsBefore, prevFound>>

Next ==
    \/ InvokeUsage
    \/ InvokeMain
    \/ FetchOpinionNoResponse
    \/ FetchOpinion
    \/ GetFileBySlug
    \/ ExtractTextFromHtml
    \/ ClientConstructionFails
    \/ RequestFails
    \/ RequestSucceeds
    \/ WriterEmpty
    \/ WriterFound

Spec == Init /\ [][Next]_vars

----------------------------------------------------------------------------
(* Properties *)

RECURSIVE Count(_, _)
Count(e, s) ==
    IF s = <<>> THEN 0
    ELSE (IF Head(s) = e THEN 1 ELSE 0) + Count(e, Tail(s))
Did(e) == Count(e, effects) > 0

Ended == pc = "exited"
Responded == treatments # None

\* C1: in both variants, every returned text other than exactly "[]" takes the
\* Found outcome, and when the run has ended results.json holds exactly that
\* text.
C1_FoundVerbatim ==
    (Ended /\ Responded /\ treatments[1] # Sentinel)
        => /\ outcome = "Found"
           /\ results = Some(treatments[1])
C1_Witness ==
    /\ Ended /\ outcome = "Found"
    /\ treatments = Some(<<"[", "]", "\n">>)
    /\ results = Some(<<"[", "]", "\n">>)

\* C2: in both variants, a run whose response is exactly "[]" reports that
\* nothing was found, does not create results.json and does not leave it
\* non-empty by a write of its own.
C2_SentinelNoWrite ==
    (Ended /\ Responded /\ treatments[1] = Sentinel)
        => /\ Did("print_none")
           /\ ~Did("open_w")
           /\ (resultsBefore = None => results = None)
           /\ (results # resultsBefore => results = Some(<<>>))
C2_Witness ==
    /\ Ended /\ treatments = Some(Sentinel)
    /\ variant = "id" /\ Did("print_none")
    /\ results = None

\* C3 as stated: after a run that received a response, results.json is absent,
\* empty, or the non-sentinel text returned in that very run.
C3_Original ==
    (Ended /\ Responded)
        => \/ results = None
           \/ results = Some(<<>>)
           \/ (treatments[1] # Sentinel /\ results = Some(treatments[1]))
\* C3 amended: after a run that received a response, results.json is either
\* what it was before the run, or the non-sentinel text returned in that run;
\* it never holds the sentinel.
C3_UnchangedOrThisRun ==
    /\ (Ended /\ Responded)
        => \/ results = resultsBefore
           \/ (treatments[1] # Sentinel /\ results = Some(treatments[1]))
    /\ results # Some(Sentinel)
    /\ results # None => results[1] \in Texts
C3_Witness ==
    /\ Ended /\ treatments = Some(Sentinel)
    /\ resultsBefore # None /\ resultsBefore[1] # <<>>
    /\ results = resultsBefore

\* C4: when a Found run directly follows a Found run, results.json holds
\* exactly the second text: the first text is replaced, not appended to.
C4_Overwrite ==
    (Ended /\ outcome = "Found" /\ prevFound)
        => results = Some(treatments[1])
C4_Witness ==
    /\ Ended /\ outcome = "Found" /\ prevFound
    /\ resultsBefore # None
    /\ Len(treatments[1]) < Len(resultsBefore[1])
    /\ results = treatments

C8_UsageExit ==
    (pc # "idle" /\ Len(argv) # 2)
        => /\ Ended /\ outcome = "Usage" /\ exitCode = Some(1)
           /\ effects = <<"print_usage">>
           /\ httpStatus = None /\ testData = None /\ sentModel = None
           /\ results = resultsBefore
C8_Witness ==
    /\ Len(argv) = 3 /\ variant = "slug"
    /\ outcome = "Usage" /\ exitCode = Some(1)
    /\ resultsBefore # None

\* C9: in both variants the model identifier of the request is the value of
\* CHAT_GPT_MODEL when that variable is set, and "gpt-3.5-turbo" otherwise.
C9_ModelFromEnv ==
    sentModel # None
        => sentModel[1] = (IF envModel # None THEN envModel[1] ELSE "gpt-3.5-turbo")

\* C10: in both variants every run that received a response ends normally, in
\* Empty when the response is exactly "[]" and in Found otherwise.
C10_TwoOutcomes ==
    (Ended /\ Responded)
        => /\ outcome \in {"Empty", "Found"}
           /\ exitCode = Some(0)
           /\ outcome = "Empty" <=> treatments[1] = Sentinel

====
